---- MODULE Spec2Model ----
(***************************************************************************)
(* tools/import-svg-to-ufo.py: one run of main() converts one SVG outline  *)
(* into one glyph of a UFO font and, for a glyph name the registry         *)
(* (glyphs/contents.plist) does not hold yet, registers it in the registry *)
(* and in lib.plist's public.glyphOrder.                                   *)
(*                                                                         *)
(* The state is the font directory on disk plus, for every running         *)
(* process, the position of main() and its local variables.  Every access  *)
(* to a file of the font is a step of its own, so that a process can die   *)
(* between two of them and two processes can interleave.                   *)
(*                                                                         *)
(* Library calls are modelled by their effect on the font directory:       *)
(*   UFOWriter(path)          rewrites metainfo.plist (creator, version 3) *)
(*   readPlist                fails on an unreadable / corrupt file        *)
(*   writePlistAtomically     replaces the whole file                      *)
(*   reader.readLib()         the content of lib.plist ({} when absent)    *)
(*   writer.writeLib(lib)     replaces lib.plist                           *)
(* Numbers: float() of a numeral is its value; the values used are small   *)
(* integers, for which float addition is exact.                            *)
(***************************************************************************)
EXTENDS Integers, Sequences, FiniteSets, TLC

VARIABLES
    config,     \* the yaml mapping document (read-only)
    svgs,       \* the SVG files on disk: base name -> width/height attributes
    info,       \* fontinfo.plist: familyName, unitsPerEm (read-only)
    metainfo,   \* metainfo.plist
    contentsOk, \* glyphs/contents.plist can be read and parsed
    contents,   \* glyphs/contents.plist: glyph name -> file name
    lib,        \* lib.plist: key -> value
    files,      \* the .glif files: path -> content
    pc,         \* per process: position in main()
    loc         \* per process: the local variables of main()

vars == <<config, svgs, info, metainfo, contentsOk, contents, lib, files, pc, loc>>

disk == <<metainfo, contentsOk, contents, lib, files>>

inputs == <<config, svgs, info>>

----------------------------------------------------------------------------
(* Bounds *)

\* processes that can run main() against the font
NProcs == 2

\* no run starts once the glyph order could grow beyond this length
MaxOrder == 4

Procs == 1..NProcs

----------------------------------------------------------------------------
(* Values *)

Range(s) == {s[i] : i \in DOMAIN s}

Count(x, s) == Cardinality({i \in DOMAIN s : s[i] = x})

EmptyMap == [k \in {} |-> 0]

ufo_font_path == "Gayathri.ufo"

contentsPlistPath == <<ufo_font_path, "glyphs", "contents.plist">>

GlifFileName(glyph_name) == <<glyph_name, ".glif">>

GlyphOrderKey == "public.glyphOrder"

NoOutfile == <<>>

DefaultOutputFile(glyph_name) == <<ufo_font_path, "glyphs", glyph_name, ".glif">>

ElsewhereFile == <<"build", "out.glif">>

\* float(svgObj.attrib['width'].replace("px", " ")): the unit suffix is dropped
SvgLength(attr) == attr.num

\* int(unihex, 16) over the characters of one token, most significant first
RECURSIVE HexValue(_)
HexValue(digits) ==
    IF digits = <<>> THEN 0
    ELSE 16 * HexValue(SubSeq(digits, 1, Len(digits) - 1)) + digits[Len(digits)]

unicode_hex_list(arg) == [i \in DOMAIN arg |-> HexValue(arg[i])]

transform_list(arg) == [i \in DOMAIN arg |-> arg[i]]

\* what UFOWriter.__init__ writes to metainfo.plist
WriterMetaInfo == [creator |-> "org.robofab.ufoLib", formatVersion |-> 3]

\* the GLIF text is a function of the arguments of svg2glif
svg2glif(svg, name, width, height, unicodes, transform, version) ==
    [svg |-> svg, name |-> name, width |-> width, height |-> height,
     unicodes |-> unicodes, transform |-> transform, formatVersion |-> version]

NoGlif == svg2glif("", "", 0, 0, <<>>, <<>>, 0)

InRegistry(g) == contentsOk /\ g \in DOMAIN contents

HasOrder(l) == GlyphOrderKey \in DOMAIN l

GlyphOrder == IF HasOrder(lib) THEN lib[GlyphOrderKey] ELSE <<>>

InOrder(g) == g \in Range(GlyphOrder)

----------------------------------------------------------------------------
(* Locals of main() before the run has assigned them *)

InitLoc ==
    [infile |-> "", outfile |-> NoOutfile, width |-> 0, height |-> 0,
     name |-> "", familyName |-> "", svg_config |-> EmptyMap,
     unicodeVal |-> <<>>, glyphWidth |-> 0, contentsPlist |-> EmptyMap,
     glyph_name |-> "", existing_glyph |-> FALSE, transform |-> <<>>,
     glif |-> NoGlif, output_file |-> NoOutfile, lib_obj |-> EmptyMap,
     outcome |-> "none", message |-> <<>>]

Running(p) == pc[p] \notin {"idle", "done"}

----------------------------------------------------------------------------
(* The placement arithmetic of main() *)

\* line 133: glyphWidth = width + int(left) + int(right)
\* (left and right are yaml integers: int() of an integer is that integer)
GlyphWidth(width, svg_config) == width + svg_config.left + svg_config.right

\* lines 150-152: base = 0; if 'base' in svg_config: base = int(svg_config['base'])
BaseOf(svg_config) == IF "base" \in DOMAIN svg_config THEN svg_config.base ELSE 0

\* line 153: transform[4] += int(svg_config['left'])   (0-based index 4)
AddLeft(transform, svg_config) ==
    [transform EXCEPT ![5] = @ + svg_config.left]

\* mutant: the outline height is left out of the y offset
AddHeightBase_NoHeight(transform, height, base) ==
    [transform EXCEPT ![6] = @ + base]

\* line 154: transform[5] += height + base              (0-based index 5)
AddHeightBase(transform, height, base) ==
    [transform EXCEPT ![6] = @ + height + base]

\* lines 149-154
PlacedTransform(cfg, svg_config, height) ==
    AddHeightBase(AddLeft(transform_list(cfg.font.transform), svg_config),
                  height, BaseOf(svg_config))

\* lines 129-132
UnicodeVal(svg_config) ==
    IF "unicode" \in DOMAIN svg_config
    THEN unicode_hex_list(svg_config.unicode) ELSE <<>>

\* mutant: the registry is never consulted
ExistingGlyph_Never(glyph_name, contentsPlist) == FALSE

\* lines 143-146
ExistingGlyph(glyph_name, contentsPlist) == glyph_name \in DOMAIN contentsPlist

\* mutant: the default path misses the glyphs directory
OutputFile_NoGlyphsDir(outfile, glyph_name) ==
    IF outfile = NoOutfile THEN <<ufo_font_path, glyph_name, ".glif">> ELSE outfile

\* lines 164-167
OutputFile(outfile, glyph_name) ==
    IF outfile = NoOutfile THEN DefaultOutputFile(glyph_name) ELSE outfile

\* line 176: contentsPlist[glyph_name] = glyph_name + '.glif'
RegisterGlyph(contentsPlist, glyph_name) ==
    [g \in DOMAIN contentsPlist \cup {glyph_name} |->
        IF g = glyph_name THEN GlifFileName(glyph_name) ELSE contentsPlist[g]]

\* mutant: the append is forgotten
AppendGlyphOrder_Forgotten(lib_obj, glyph_name) == lib_obj

\* line 181: lib_obj['public.glyphOrder'].append(glyph_name)
AppendGlyphOrder(lib_obj, glyph_name) ==
    [lib_obj EXCEPT ![GlyphOrderKey] = Append(@, glyph_name)]

----------------------------------------------------------------------------
(* The steps of main(), for process p *)

\* what can be given as OUTPUT.glif on the command line
OutfileArgs == {ElsewhereFile} \cup
               {DefaultOutputFile(config.svgs[s].glyph_name) : s \in DOMAIN config.svgs}

Busy == Cardinality({q \in Procs : Running(q)})

\* lines 102-121: arguments, configuration, SVG size, reader and writer, font info.
\* Constructing the UFOWriter writes metainfo.plist.
Begin(p, infile, outfile) ==
    /\ ~Running(p)
    /\ Len(GlyphOrder) + Busy < MaxOrder
    /\ loc' = [loc EXCEPT ![p] =
                 [InitLoc EXCEPT !.infile = infile,
                                 !.outfile = outfile,
                                 !.width = SvgLength(svgs[infile].width),
                                 !.height = SvgLength(svgs[infile].height),
                                 !.name = infile,
                                 !.familyName = info.familyName]]
    /\ metainfo' = WriterMetaInfo
    /\ pc' = [pc EXCEPT ![p] = "lookup"]
    /\ UNCHANGED <<inputs, contentsOk, contents, lib, files>>

\* main() called with INPUT.svg only
Start(p) == \E infile \in DOMAIN svgs : Begin(p, infile, NoOutfile)

\* main() called with INPUT.svg and OUTPUT.glif
StartTo(p) ==
    \E infile \in DOMAIN svgs, outfile \in OutfileArgs : Begin(p, infile, outfile)

\* lines 124-128: no configuration for this svg: report the skip and return
Skip(p) ==
    /\ pc[p] = "lookup"
    /\ loc[p].name \notin DOMAIN config.svgs
    /\ loc' = [loc EXCEPT ![p].outcome = "skip",
                          ![p].message = <<"Skip: Configuration not found for svg", loc[p].name>>]
    /\ pc' = [pc EXCEPT ![p] = "done"]
    /\ UNCHANGED <<inputs, disk>>

\* lines 124-133: the configuration of this svg, its unicodes and advance width
Lookup(p) ==
    /\ pc[p] = "lookup"
    /\ loc[p].name \in DOMAIN config.svgs
    /\ LET svg_config == config.svgs[loc[p].name] IN
         loc' = [loc EXCEPT ![p].svg_config = svg_config,
                            ![p].unicodeVal = UnicodeVal(svg_config),
                            ![p].glyphWidth = GlyphWidth(loc[p].width, svg_config)]
    /\ pc' = [pc EXCEPT ![p] = "readcontents"]
    /\ UNCHANGED <<inputs, disk>>

\* lines 135-140: the registry cannot be read: UFOLibError naming the file
ReadContentsFail(p) ==
    /\ pc[p] = "readcontents"
    /\ ~contentsOk
    /\ loc' = [loc EXCEPT ![p].outcome = "UFOLibError",
                          ![p].message = <<"The file", contentsPlistPath, "could not be read.">>]
    /\ pc' = [pc EXCEPT ![p] = "done"]
    /\ UNCHANGED <<inputs, disk>>

\* mutant: a registry that cannot be read counts as an empty one
ReadContents_Unchecked(p) ==
    /\ pc[p] = "readcontents"
    /\ LET glyph_name == loc[p].svg_config.glyph_name IN
         loc' = [loc EXCEPT ![p].contentsPlist = contents,
                            ![p].glyph_name = glyph_name,
                            ![p].existing_glyph = ExistingGlyph(glyph_name, contents)]
    /\ pc' = [pc EXCEPT ![p] = "convert"]
    /\ UNCHANGED <<inputs, disk>>

\* lines 135-146: read the registry; is the glyph name one of its keys?
ReadContents(p) ==
    /\ pc[p] = "readcontents"
    /\ contentsOk
    /\ LET glyph_name == loc[p].svg_config.glyph_name IN
         loc' = [loc EXCEPT ![p].contentsPlist = contents,
                            ![p].glyph_name = glyph_name,
                            ![p].existing_glyph = ExistingGlyph(glyph_name, contents)]
    /\ pc' = [pc EXCEPT ![p] = "convert"]
    /\ UNCHANGED <<inputs, disk>>

\* lines 149-162: the transform, and the call of svg2glif
Convert(p) ==
    /\ pc[p] = "convert"
    /\ LET transform == PlacedTransform(config, loc[p].svg_config, loc[p].height) IN
         loc' = [loc EXCEPT ![p].transform = transform,
                            ![p].glif = svg2glif(loc[p].name,
                                                 loc[p].svg_config.glyph_name,
                                                 loc[p].glyphWidth,
                                                 info.unitsPerEm,
                                                 loc[p].unicodeVal,
                                                 transform,
                                                 config.font.version)]
    /\ pc' = [pc EXCEPT ![p] = "writeglif"]
    /\ UNCHANGED <<inputs, disk>>

\* mutant: the test "if not existing_glyph" is missing
WriteGlif_AlwaysRegister(p) ==
    /\ pc[p] = "writeglif"
    /\ LET output_file == OutputFile(loc[p].outfile, loc[p].svg_config.glyph_name) IN
         /\ files' = [f \in DOMAIN files \cup {output_file} |->
                         IF f = output_file THEN loc[p].glif ELSE files[f]]
         /\ loc' = [loc EXCEPT ![p].output_file = output_file]
    /\ pc' = [pc EXCEPT ![p] = "register"]
    /\ UNCHANGED <<inputs, metainfo, contentsOk, contents, lib>>

\* lines 164-175: write the GLIF file; an existing glyph ends the run here
WriteGlif(p) ==
    /\ pc[p] = "writeglif"
    /\ LET output_file == OutputFile(loc[p].outfile, loc[p].svg_config.glyph_name) IN
         /\ files' = [f \in DOMAIN files \cup {output_file} |->
                         IF f = output_file THEN loc[p].glif ELSE files[f]]
         /\ loc' = [loc EXCEPT ![p].output_file = output_file,
                               ![p].outcome = IF loc[p].existing_glyph THEN "ok" ELSE @]
    /\ pc' = [pc EXCEPT ![p] = IF loc[p].existing_glyph THEN "done" ELSE "register"]
    /\ UNCHANGED <<inputs, metainfo, contentsOk, contents, lib>>

\* mutant: the glyph order is written where the registry should be
WriteContents_OrderFirst(p) ==
    /\ pc[p] = "register"
    /\ HasOrder(lib)
    /\ lib' = AppendGlyphOrder(lib, loc[p].glyph_name)
    /\ pc' = [pc EXCEPT ![p] = "readlib"]
    /\ UNCHANGED <<inputs, metainfo, contentsOk, contents, files, loc>>

\* mutant: the registry is read again and merged at the write
WriteContents_Merging(p) ==
    /\ pc[p] = "register"
    /\ LET contentsPlist == RegisterGlyph(contents, loc[p].glyph_name) IN
         /\ loc' = [loc EXCEPT ![p].contentsPlist = contentsPlist]
         /\ contents' = contentsPlist
    /\ contentsOk' = TRUE
    /\ pc' = [pc EXCEPT ![p] = "readlib"]
    /\ UNCHANGED <<inputs, metainfo, lib, files>>

\* lines 176-179: add the new glyph to the registry and write the registry
WriteContents(p) ==
    /\ pc[p] = "register"
    /\ LET contentsPlist == RegisterGlyph(loc[p].contentsPlist, loc[p].glyph_name) IN
         /\ loc' = [loc EXCEPT ![p].contentsPlist = contentsPlist]
         /\ contents' = contentsPlist
    /\ contentsOk' = TRUE
    /\ pc' = [pc EXCEPT ![p] = "readlib"]
    /\ UNCHANGED <<inputs, metainfo, lib, files>>

\* lines 180-181: lib.plist holds no public.glyphOrder: KeyError
ReadLibFail(p) ==
    /\ pc[p] = "readlib"
    /\ ~HasOrder(lib)
    /\ loc' = [loc EXCEPT ![p].lib_obj = lib,
                          ![p].outcome = "KeyError",
                          ![p].message = <<GlyphOrderKey>>]
    /\ pc' = [pc EXCEPT ![p] = "done"]
    /\ UNCHANGED <<inputs, disk>>

\* lines 180-181: read lib.plist and append the glyph name to its glyph order
ReadLib(p) ==
    /\ pc[p] = "readlib"
    /\ HasOrder(lib)
    /\ loc' = [loc EXCEPT ![p].lib_obj = AppendGlyphOrder(lib, loc[p].glyph_name)]
    /\ pc' = [pc EXCEPT ![p] = "writelib"]
    /\ UNCHANGED <<inputs, disk>>

\* line 182: write lib.plist; main() returns
WriteLib(p) ==
    /\ pc[p] = "writelib"
    /\ lib' = loc[p].lib_obj
    /\ loc' = [loc EXCEPT ![p].outcome = "ok"]
    /\ pc' = [pc EXCEPT ![p] = "done"]
    /\ UNCHANGED <<inputs, metainfo, contentsOk, contents, files>>

\* the process dies between two steps (killed, power loss, an I/O error);
\* its locals die with it
Crash(p) ==
    /\ Running(p)
    /\ loc' = [loc EXCEPT ![p] = [InitLoc EXCEPT !.outcome = "crash"]]
    /\ pc' = [pc EXCEPT ![p] = "done"]
    /\ UNCHANGED <<inputs, disk>>

\* the steps of a run once it has started
Run(p) ==
    \/ Skip(p)
    \/ Lookup(p)
    \/ ReadContentsFail(p)
    \/ ReadContents(p)
    \/ Convert(p)
    \/ WriteGlif(p)
    \/ WriteContents(p)
    \/ ReadLibFail(p)
    \/ ReadLib(p)
    \/ WriteLib(p)
    \/ Crash(p)

Step(p) == Start(p) \/ StartTo(p) \/ Run(p)

----------------------------------------------------------------------------
(* Initial states: a configuration, the SVG files, and a consistent font *)

Px(n) == [num |-> n, unit |-> "px"]

Svg(w, h) == [width |-> Px(w), height |-> Px(h)]

FontSection(transform) ==
    [ufo |-> ufo_font_path, transform |-> transform, version |-> 2]

IdentityTransform == <<1, 0, 0, 1, 0, 0>>

\* the glyph file of a glyph the font already holds
OldGlif(g) == svg2glif("", g, 0, 0, <<>>, <<>>, 2)

\* all orders of the glyph names of set S
Orders(S) == {s \in [1..Cardinality(S) -> S] : Range(s) = S}

\* a font whose registry, glyph order and glyph files hold exactly the names of S
FontOf(S, order) ==
    [contents |-> [g \in S |-> GlifFileName(g)],
     lib |-> [k \in {GlyphOrderKey} |-> order],
     files |-> [f \in {DefaultOutputFile(g) : g \in S} |-> OldGlif(f[3])]]

\* an empty font whose lib.plist holds no glyph order
FontNoOrder ==
    [contents |-> EmptyMap, lib |-> EmptyMap, files |-> EmptyMap]

Fonts(G) == {FontOf(S, o) : <<S, o>> \in {<<S, o>> \in (SUBSET G) \X UNION {Orders(S) : S \in SUBSET G} : o \in Orders(S)}}
            \cup {FontNoOrder}

MetaInfos == {WriterMetaInfo, [creator |-> "org.unifiedfontobject", formatVersion |-> 2]}

InitWith(configs, svgsets, infos, fonts, metainfos, readable) ==
    /\ config \in configs
    /\ svgs \in svgsets
    /\ info \in infos
    /\ metainfo \in metainfos
    /\ contentsOk \in readable
    /\ \E font \in fonts :
          /\ contents = IF contentsOk THEN font.contents ELSE EmptyMap
          /\ lib = font.lib
          /\ files = font.files
    /\ pc = [p \in Procs |-> "idle"]
    /\ loc = [p \in Procs |-> InitLoc]

\* the mapping of the sequential runs: two svgs of glyph A, one of B, one unmapped
MainConfig ==
    [font |-> FontSection(IdentityTransform),
     svgs |-> [s \in {"a", "a2", "b"} |->
                 CASE s = "a"  -> [glyph_name |-> "A", left |-> 10, right |-> 20,
                                   unicode |-> << <<0, 13, 0, 5>> >>]
                   [] s = "a2" -> [glyph_name |-> "A", left |-> 5, right |-> 5, base |-> 0]
                   [] s = "b"  -> [glyph_name |-> "B", left |-> 0, right |-> 3, base |-> -4]]]

MainSvgs ==
    [s \in {"a", "a2", "b", "zz"} |->
        CASE s = "a" -> Svg(100, 200) [] s = "a2" -> Svg(100, 50)
          [] s = "b" -> Svg(60, 80) [] s = "zz" -> Svg(10, 10)]

MainInfo == [familyName |-> "Gayathri", unitsPerEm |-> 1000]

Init ==
    InitWith({MainConfig}, {MainSvgs}, {MainInfo}, Fonts({"A", "B"}), MetaInfos, BOOLEAN)

\* one process at a time: runs follow each other
Next == Step(1)

Spec == Init /\ [][Next]_vars

----------------------------------------------------------------------------
(* Placement: one svg whose bearings, baseline offset and size vary *)

PlaceEntries ==
    {[glyph_name |-> "A", left |-> l, right |-> r] : l \in {-2, 5, 10}, r \in {0, 10, 20}}
    \cup {[glyph_name |-> "A", left |-> l, right |-> r, base |-> b] :
             l \in {-2, 5, 10}, r \in {0, 10, 20}, b \in {0, -3}}

PlaceConfigs ==
    {[font |-> FontSection(t), svgs |-> [s \in {"a"} |-> e]] :
        t \in {IdentityTransform, <<2, 0, 0, -1, 30, -40>>}, e \in PlaceEntries}

PlaceSvgs ==
    {[s \in {"a", "zz"} |-> IF s = "a" THEN Svg(w, h) ELSE Svg(10, 10)] :
        w \in {100, 37}, h \in {50, 200}}

PlaceInfos == {[familyName |-> "Gayathri", unitsPerEm |-> u] : u \in {1000, 2048}}

InitPlace ==
    InitWith(PlaceConfigs, PlaceSvgs, PlaceInfos, {FontOf({}, <<>>), FontNoOrder},
             {WriterMetaInfo}, BOOLEAN)

SpecPlace == InitPlace /\ [][Next]_vars

----------------------------------------------------------------------------
(* Concurrent runs against the same font *)

ConcConfig ==
    [font |-> FontSection(IdentityTransform),
     svgs |-> [s \in {"a", "b", "c"} |->
                 CASE s = "a" -> [glyph_name |-> "A", left |-> 10, right |-> 20]
                   [] s = "b" -> [glyph_name |-> "B", left |-> 0, right |-> 3]
                   [] s = "c" -> [glyph_name |-> "C", left |-> 1, right |-> 1]]]

ConcSvgs ==
    [s \in {"a", "b", "c", "zz"} |-> Svg(100, 200)]

InitConc ==
    InitWith({ConcConfig}, {ConcSvgs}, {MainInfo}, {FontOf({}, <<>>), FontNoOrder},
             {WriterMetaInfo}, BOOLEAN)

\* two processes, each called without OUTPUT.glif
NextConc == \E p \in Procs : Start(p) \/ Run(p)

SpecConc == InitConc /\ [][NextConc]_vars

----------------------------------------------------------------------------
(* Properties *)

GlyphNames == {config.svgs[s].glyph_name : s \in DOMAIN config.svgs}

\* the run of p is past the read of the registry
PastRead(p) == pc[p] \in {"convert", "writeglif", "register", "readlib", "writelib"}

\* the run of p has added its glyph to its registry and written the registry
RegistryWritten(p) ==
    /\ pc[p] \in {"readlib", "writelib", "done"}
    /\ ~loc[p].existing_glyph
    /\ loc[p].glyph_name \in DOMAIN loc[p].contentsPlist

Finished(p, outcome) == pc[p] = "done" /\ loc[p].outcome = outcome

\* C1: a run whose outline base name has no entry in config['svgs'] reports a
\* skip and none of its steps changes any file of the font directory.
C1_SkipWritesNothing ==
    [][\A p \in Procs :
          (pc'[p] # pc[p] /\ loc'[p].name \notin DOMAIN config.svgs /\ loc'[p].outcome # "crash")
             => /\ disk' = disk
                /\ pc'[p] = "done" => loc'[p].outcome = "skip"]_vars

\* C2: a run that ends successfully for a glyph name the registry did not hold
\* leaves the registry mapping the name to name + '.glif' and the glyph order
\* containing the name.
C2_NewGlyphRegistered ==
    \A p \in Procs :
        (Finished(p, "ok") /\ ~loc[p].existing_glyph)
           => /\ InRegistry(loc[p].glyph_name)
              /\ contents[loc[p].glyph_name] = GlifFileName(loc[p].glyph_name)
              /\ InOrder(loc[p].glyph_name)

C2_Witness ==
    \E p \in Procs :
        /\ Finished(p, "ok") /\ ~loc[p].existing_glyph
        /\ loc[p].glyph_name = "B" /\ InRegistry("A")

C4_RegistryOrderConsistent ==
    (contentsOk /\ \A p \in Procs : ~Running(p))
       => \A g \in GlyphNames : InRegistry(g) <=> InOrder(g)

\* C5: the converter is called with advance width = width + left + right,
\* height = units-per-em, and the base transform with left added to e and
\* outline height + base (0 when absent) added to f; a, b, c, d are unchanged.
C5_Placement ==
    \A p \in Procs :
        loc[p].transform # <<>> =>
            LET c == config.svgs[loc[p].name]
                t == config.font.transform
                w == svgs[loc[p].name].width.num
                h == svgs[loc[p].name].height.num
                b == IF "base" \in DOMAIN c THEN c.base ELSE 0
            IN  /\ loc[p].glif.width = w + c.left + c.right
                /\ loc[p].glif.height = info.unitsPerEm
                /\ loc[p].glif.transform =
                      <<t[1], t[2], t[3], t[4], t[5] + c.left, t[6] + h + b>>
                /\ (c.left = 10 /\ c.right = 20 /\ w = 100) => loc[p].glif.width = 130
                /\ (t = <<1, 0, 0, 1, 0, 0>> /\ c.left = 5 /\ h = 50 /\ b = 0)
                      => loc[p].glif.transform = <<1, 0, 0, 1, 5, 50>>
                /\ (t = <<1, 0, 0, 1, 0, 0>> /\ c.left = 10 /\ c.right = 10 /\ w = 100
                      /\ h = 200 /\ b = 0 /\ info.unitsPerEm = 1000)
                      => /\ loc[p].glif.width = 120
                         /\ loc[p].glif.height = 1000
                         /\ loc[p].glif.transform = <<1, 0, 0, 1, 10, 200>>

\* the written glyph of a run with a non-zero base and a non-trivial base transform
C5_Witness ==
    \E p \in Procs :
        /\ Finished(p, "ok")
        /\ config.svgs[loc[p].name].left = 10 /\ config.svgs[loc[p].name].right = 20
        /\ "base" \in DOMAIN config.svgs[loc[p].name] /\ config.svgs[loc[p].name].base = -3
        /\ config.font.transform = <<2, 0, 0, -1, 30, -40>>
        /\ files[loc[p].output_file].width = 130
        /\ files[loc[p].output_file].height = 2048
        /\ files[loc[p].output_file].transform = <<2, 0, 0, -1, 40, 157>>

\* C6: while the registry cannot be read no step writes a glyph file, the
\* registry or lib.plist, no run gets past the read, and a run that reaches the
\* read ends with a UFOLibError whose message names glyphs/contents.plist.
C6_RegistryReadError ==
    /\ [][~contentsOk => /\ files' = files /\ contents' = contents
                         /\ contentsOk' = contentsOk /\ lib' = lib]_vars
    /\ [](\A p \in Procs :
            /\ ~contentsOk => ~PastRead(p)
            /\ (~contentsOk /\ pc[p] = "done")
                  => loc[p].outcome \in {"none", "skip", "crash", "UFOLibError"}
            /\ loc[p].outcome = "UFOLibError"
                  => /\ pc[p] = "done"
                     /\ loc[p].message = <<"The file", contentsPlistPath, "could not be read.">>
                     /\ loc[p].output_file = NoOutfile
                     /\ loc[p].lib_obj = EmptyMap)
    /\ [][\A p \in Procs :
            (pc[p] = "readcontents" /\ ~contentsOk /\ pc'[p] # pc[p] /\ loc'[p].outcome # "crash")
               => loc'[p].outcome = "UFOLibError"]_vars

C6_Witness ==
    \E p \in Procs :
        /\ Finished(p, "UFOLibError")
        /\ loc[p].name = "b"
        /\ InOrder("A")
        /\ DefaultOutputFile("B") \notin DOMAIN files

\* C7: from the write of the registry until the write of the glyph order the
\* persisted registry holds the new name and the glyph order does not, and a run
\* that ends there without success leaves that state; a name in the glyph
\* order is always a key of the registry.
C7_RegistryBeforeOrder ==
    /\ [](\A p \in Procs :
            (RegistryWritten(p) /\ loc[p].outcome # "ok")
               => InRegistry(loc[p].glyph_name) /\ ~InOrder(loc[p].glyph_name))
    /\ [](contentsOk => \A g \in GlyphNames : InOrder(g) => InRegistry(g))
    /\ [][\A p \in Procs :
            (pc[p] \in {"readlib", "writelib"} /\ pc'[p] = "done" /\ loc'[p].outcome # "ok")
               => /\ loc[p].glyph_name \in DOMAIN contents'
                  /\ loc[p].glyph_name \notin Range(GlyphOrder')]_vars

\* a run died after the registry write: the registry holds B, the order does not
C7_Witness ==
    \E p \in Procs :
        /\ Finished(p, "crash")
        /\ InRegistry("B") /\ ~InOrder("B")
        /\ HasOrder(lib)
        /\ InRegistry("A") /\ InOrder("A")

\* C9 (as claimed): a run that ends successfully for a glyph name the registry
\* held at its start leaves the name in the font's glyph order.
C9_RepairsOutOfSync ==
    \A p \in Procs :
        (Finished(p, "ok") /\ loc[p].existing_glyph /\ HasOrder(lib))
           => InOrder(loc[p].glyph_name)

\* C9 (amended): a run for a glyph name that the registry holds and the glyph
\* order does not leaves lib.plist and the registry as they are: the name
\* stays out of the glyph order.
C9_StaysOutOfSync ==
    [][\A p \in Procs :
          (PastRead(p) /\ loc[p].existing_glyph /\ ~InOrder(loc[p].glyph_name))
             => /\ lib' = lib /\ contents' = contents
                /\ pc'[p] = "done" => loc[p].glyph_name \notin Range(GlyphOrder')]_vars

C9_Witness ==
    \E p \in Procs :
        /\ Finished(p, "ok") /\ loc[p].existing_glyph
        /\ InRegistry(loc[p].glyph_name) /\ ~InOrder(loc[p].glyph_name)
        /\ HasOrder(lib)

C8_BlindWriteBack ==
    /\ [][\A p \in Procs :
            /\ (pc[p] = "register" /\ pc'[p] = "readlib")
                  => contents' = RegisterGlyph(loc[p].contentsPlist, loc[p].glyph_name)
            /\ (pc[p] = "writelib" /\ pc'[p] = "done" /\ loc'[p].outcome = "ok")
                  => lib' = loc[p].lib_obj
            /\ (PastRead(p) /\ PastRead(p)')
                  => loc'[p].existing_glyph = loc[p].existing_glyph]_vars
    /\ []((\A p \in Procs : Finished(p, "ok") /\ ~loc[p].existing_glyph)
             => \E p \in Procs : InRegistry(loc[p].glyph_name))

\* both runs ended successfully, one registered B and the other C, yet the
\* registry holds C only while the glyph order holds B; A, registered by two
\* runs at once before, is twice in the glyph order
C8_Witness ==
    /\ Finished(1, "ok") /\ ~loc[1].existing_glyph /\ loc[1].glyph_name = "B"
    /\ Finished(2, "ok") /\ ~loc[2].existing_glyph /\ loc[2].glyph_name = "C"
    /\ InRegistry("C") /\ ~InRegistry("B")
    /\ InOrder("B") /\ InOrder("C")
    /\ Count("A", GlyphOrder) = 2

====
